---- MODULE Spec2Model ----
(***************************************************************************)
(* Model of pdf_compressor.py: the in-memory job registry `jobs`, the      *)
(* per-job pipeline thread process_job, the /compress, /status and         *)
(* /download handlers, the eviction sweep cleanup_old_jobs, and the page   *)
(* classifier classify_page with analyze_pdf_pages. Texts are strings,     *)
(* examined character by character.                                        *)
(*                                                                         *)
(* Python's None is the empty sequence <<>>, a present value v is <<v>>.   *)
(* One action is one access to shared state (the registry, a job dict, the *)
(* temporary files) together with the thread-local computation before it.  *)
(***************************************************************************)
EXTENDS Integers, Sequences, FiniteSets, TLC

\* ------------------------------------------------------------- bounds
MaxJobs == 2        \* job tokens ever issued
MaxPages == 2       \* pages of an uploaded document
MaxImages == 2      \* unique images of a working document
MaxTicks == 2       \* clock advances
TickSec == 3600     \* seconds per clock advance
MaxDocPages == 2    \* pages of a document given to analyze_pdf_pages
MaxSide == 4        \* width and height of an image, and max_dim, in pixels
MaxAnnots == 2      \* annotations of a page
MaxFiles == 2       \* embedded files of a working document

\* --------------------------------------------------- program constants
max_age_sec == 3600

JobIds == 1..MaxJobs
None == <<>>
Some(v) == <<v>>

\* the extract_pages form field of a request, split at the commas: the
\* tokens a client can send (page numbers, padded, signed, not a number)
FormTokens ==
  {ToString(p) : p \in 0..(MaxPages + 1)} \cup {" 2", "-1", "x"}

PageForms ==
  {<<>>} \cup {<<t>> : t \in FormTokens}
         \cup {<<"1", ToString(q)>> : q \in 1..(MaxPages + 1)}
         \cup {<<"2", "1">>, <<"x", "1">>}

VARIABLES
  jobs,      \* the registry: job_id -> job dict, for the keys present
  popped,    \* job dicts removed from the registry (still referenced by readers)
  files,     \* existing temporary input files: path -> page count of the upload
  now,       \* time.time()
  th,        \* per job id: the request/pipeline thread's position and locals
  sweep,     \* the cleanup worker: position and to_remove
  st,        \* a /status request in flight and its response
  dl,        \* a /download request in flight and its response
  an,        \* a call of analyze_pdf_pages: its document, position and result
  rs,        \* a call of _resample_image: its arguments and result
  closed     \* the job ids whose output BytesIO has been closed

vars == <<jobs, popped, files, now, th, sweep, st, dl, an, rs, closed>>

\* ------------------------------------------------------------ helpers
LowerCase == "abcdefghijklmnopqrstuvwxyz"
UpperCase == "ABCDEFGHIJKLMNOPQRSTUVWXYZ"

Abs(x) == IF x < 0 THEN -x ELSE x
Max2(a, b) == IF a > b THEN a ELSE b
Min2(a, b) == IF a < b THEN a ELSE b

\* str(KeyError(job_id))
KeyErrorMsg(j) == "'" \o ToString(j) \o "'"

\* str.strip(), str.isdigit() and int() on the characters of a token
Char(s, i) == SubSeq(s, i, i)

RECURSIVE lstrip(_)
lstrip(s) ==
  IF Len(s) > 0 /\ Char(s, 1) = " " THEN lstrip(SubSeq(s, 2, Len(s))) ELSE s

RECURSIVE rstrip(_)
rstrip(s) ==
  IF Len(s) > 0 /\ Char(s, Len(s)) = " " THEN rstrip(SubSeq(s, 1, Len(s) - 1))
  ELSE s

strip(s) == rstrip(lstrip(s))

Digits == <<"0", "1", "2", "3", "4", "5", "6", "7", "8", "9">>

IsDigitChar(c) == \E d \in 1..Len(Digits) : Digits[d] = c

isdigit(s) == Len(s) > 0 /\ \A i \in 1..Len(s) : IsDigitChar(Char(s, i))

DigitValue(c) == (CHOOSE d \in 1..Len(Digits) : Digits[d] = c) - 1

RECURSIVE ParseDigits(_)
ParseDigits(s) ==
  IF Len(s) = 0 THEN 0
  ELSE 10 * ParseDigits(SubSeq(s, 1, Len(s) - 1)) + DigitValue(Char(s, Len(s)))

\* int(p) of a token that passed the isdigit filter: surrounding blanks are
\* ignored
int(s) == ParseDigits(strip(s))

\* /compress lines 853-855: the tokens that are digits, as integers
ParsePages(form) ==
  LET IsNumber(t) == isdigit(strip(t))
      kept == SelectSeq(form, IsNumber)
  IN  [i \in 1..Len(kept) |-> int(kept[i])]

\* process_job line 688-689: 1-based -> 0-based, drop what is out of range
SelectAll(extract_pages, page_count) ==
  [i \in 1..Len(extract_pages) |-> extract_pages[i] - 1]

\* the pages of the document that are listed, in document order
SelectInDocumentOrder(extract_pages, page_count) ==
  LET S == {p \in 0..(page_count - 1) :
              \E i \in 1..Len(extract_pages) : extract_pages[i] - 1 = p}
  IN  CHOOSE f \in [1..Cardinality(S) -> S] :
        \A i, k \in 1..Cardinality(S) : i < k => f[i] < f[k]

SelectPages(extract_pages, page_count) ==
  LET zero == [i \in 1..Len(extract_pages) |-> extract_pages[i] - 1]
      InRange(p) == 0 <= p /\ p < page_count
  IN  SelectSeq(zero, InRange)

\* process_job line 694
AllPages(page_count) == [i \in 1..page_count |-> i - 1]

\* process_job line 692 / 695
ExtractLabel(keep) == "Extracting " \o ToString(Len(keep)) \o " selected pages..."
AllLabel == "Processing all pages..."

\* process_job line 775: 20 + int((idx / max(1, total)) * 60)
ImageProgressNoDiv(idx, total) == 20 + idx * 60

ImageProgress(idx, total) ==
  20 + ((idx * 60) \div (IF total > 1 THEN total ELSE 1))

\* the job dict written by /compress, lines 862-868
NewJob(created_at, input_path) ==
  [status |-> "queued", progress |-> 0, created_at |-> created_at,
   input_path |-> input_path, error |-> None, output_buffer |-> None]

\* dict.update(d): the keys of d replace those of the job dict
DictUpdate(job, d) == d @@ job

\* process_job lines 795-800
DoneFieldsNoBuffer(final_bytes) ==
  [status |-> "done", progress |-> 100, error |-> None]

DoneFields(final_bytes) ==
  [status |-> "done", progress |-> 100,
   output_buffer |-> Some(final_bytes), error |-> None]

\* process_job line 805
ErrorFieldsFull(msg) == [status |-> "error", progress |-> 100, error |-> Some(msg)]

ErrorFields(msg) == [status |-> "error", error |-> Some(msg)]

\* ghostscript_compress, lines 453-524; `how` is what the environment does
GsOutcomes == {"not_found", "nonzero_exit", "io_error", "empty_output", "ok"}

GsAlways(input_bytes, extreme, how) ==
  [input_bytes EXCEPT !.passes = Append(@, IF extreme THEN "gs_screen" ELSE "gs_ebook")]

GsReturnsStdout(input_bytes, extreme, how) ==
  IF how \in {"not_found", "io_error", "nonzero_exit"} THEN input_bytes
  ELSE IF how = "empty_output"
  THEN [pages |-> <<>>, images |-> <<>>, annots |-> <<>>, embfiles |-> <<>>,
        passes |-> <<>>]
  ELSE [input_bytes EXCEPT
          !.passes = Append(@, IF extreme THEN "gs_screen" ELSE "gs_ebook")]

ghostscript_compress(input_bytes, extreme, how) ==
  IF how = "not_found" THEN input_bytes
  ELSE IF how = "io_error" THEN input_bytes
  ELSE IF how = "nonzero_exit" THEN input_bytes
  ELSE IF how = "empty_output" THEN input_bytes
  ELSE [input_bytes EXCEPT
          !.passes = Append(@, IF extreme THEN "gs_screen" ELSE "gs_ebook")]

\* pikepdf_optimize, lines 526-545
PikeOutcomes == {"raises", "ok"}

pikepdf_optimize(input_bytes, how) ==
  IF how = "raises" THEN input_bytes
  ELSE [input_bytes EXCEPT !.passes = Append(@, "qpdf")]

\* cleanup_old_jobs line 912: now - j.get("created_at", now) > max_age_sec
Expired(job, t) == t - job.created_at > max_age_sec

\* the job dict a reference to job j denotes: in the registry, or popped
JobOf(j) == IF j \in DOMAIN jobs THEN jobs[j] ELSE popped[j]

\* thread locals before process_job runs
NoThread ==
  [pc |-> "unborn", form |-> <<>>, extract_pages |-> <<>>,
   extreme_compression |-> FALSE,
   page_count |-> 0, keep |-> <<>>, attempts |-> <<>>, work |-> <<>>,
   annots |-> <<>>, embfiles |-> <<>>, content |-> None, clean_how |-> None,
   images |-> <<>>, image_how |-> <<>>,
   total |-> 0, idx |-> 0, pymupdf_bytes |-> None, gs_bytes |-> None,
   gs_how |-> None, pike_how |-> None, exc |-> None]

\* the cleanup worker: `now` and `to_remove` are the locals of
\* cleanup_old_jobs, `size` the dict size the iterator of line 912 holds,
\* `expired` is to_remove as first computed, `swept` the ids the sweeps
\* that have returned were to remove
IdleSweep == [pc |-> "sleep", now |-> 0, size |-> 0, to_remove |-> {},
              expired |-> {}, swept |-> {}]
IdleStatus == [pc |-> "idle", job_id |-> 0, found |-> FALSE, status |-> None,
               progress |-> None, error |-> None, code |-> 0]
IdleDownload == [pc |-> "idle", job_id |-> 0, found |-> FALSE, status |-> None,
                 body |-> None, code |-> 0]
\* no call of _resample_image is pending
IdleResample == [pc |-> "idle"]
IdleAnalyze == [pc |-> "idle", doc |-> [readable |-> FALSE, pages |-> <<>>],
                page_num |-> 0, analysis |-> None, result |-> None]

Init ==
  /\ jobs = <<>>
  /\ popped = <<>>
  /\ files = <<>>
  /\ now = 0
  /\ th = [j \in JobIds |-> NoThread]
  /\ sweep = IdleSweep
  /\ st = IdleStatus
  /\ dl = IdleDownload
  /\ an = IdleAnalyze
  /\ rs = IdleResample
  /\ closed = {}

\* A response leaves the server with the step that answers: st and dl show
\* it in the state after that step, and the next step of any thread clears it.
Fade(r, idle) == IF r.pc = "responded" THEN idle ELSE r

Forget ==
  /\ st' = Fade(st, IdleStatus) /\ dl' = Fade(dl, IdleDownload)
  /\ UNCHANGED <<an, rs, closed>>

\* ------------------------------------------------- writes of the thread
\* jobs[job_id][key] = value / jobs[job_id].update(d): the registry lookup
\* raises KeyError when the key has been popped
Raise(j, locals, msg) ==
  th' = [th EXCEPT ![j] = [locals EXCEPT !.pc = "except", !.exc = Some(msg)]]

WriteJobOrCreate(j, fields, locals) ==
  /\ jobs' = IF j \in DOMAIN jobs
             THEN [jobs EXCEPT ![j] = DictUpdate(@, fields)]
             ELSE (j :> DictUpdate(NewJob(0, j), fields)) @@ jobs
  /\ th' = [th EXCEPT ![j] = locals]

WriteJob(j, fields, locals) ==
  IF j \in DOMAIN jobs
  THEN /\ jobs' = [jobs EXCEPT ![j] = DictUpdate(@, fields)]
       /\ th' = [th EXCEPT ![j] = locals]
  ELSE /\ jobs' = jobs
       /\ Raise(j, locals, KeyErrorMsg(j))

Goto(j, pc) == [th[j] EXCEPT !.pc = pc]

\* a mapping without one key
Without(f, j) == [k \in DOMAIN f \ {j} |-> f[k]]

\* cleanup_temp_file, lines 430-438
KeepTempFile(filepath) == files

cleanup_temp_file(filepath) == Without(files, filepath)

\* ------------------------------------------------------------ /compress
\* lines 846-859: parse the form, save the upload to a temporary file
SubmitSave(j, form, extreme, page_count) ==
  /\ th[j].pc = "unborn"
  /\ \A i \in JobIds : i < j => th[i].pc # "unborn"
  /\ files' = (j :> page_count) @@ files
  /\ th' = [th EXCEPT ![j] = [@ EXCEPT !.pc = "saved", !.form = form,
                                       !.extract_pages = ParsePages(form),
                                       !.extreme_compression = extreme]]
  /\ UNCHANGED <<jobs, popped, now, sweep>> /\ Forget

\* lines 846-859 raise (int() of the quality or max_dimension field, the
\* temporary file, the save), lines 877-880: what was written of the
\* temporary file is removed and the request is answered 500
SubmitFail(j) ==
  /\ th[j].pc = "unborn"
  /\ \A i \in JobIds : i < j => th[i].pc # "unborn"
  /\ th' = [th EXCEPT ![j] = Goto(j, "rejected")]
  /\ UNCHANGED <<jobs, popped, files, now, sweep>> /\ Forget

\* lines 861-868: register the job dict
SubmitRegisterNothing(j) ==
  /\ th[j].pc = "saved"
  /\ th' = [th EXCEPT ![j] = Goto(j, "registered")]
  /\ UNCHANGED <<jobs, popped, files, now, sweep>> /\ Forget

SubmitRegister(j) ==
  /\ th[j].pc = "saved"
  /\ jobs' = (j :> NewJob(now, j)) @@ jobs
  /\ th' = [th EXCEPT ![j] = Goto(j, "registered")]
  /\ UNCHANGED <<popped, files, now, sweep>> /\ Forget

\* lines 870-876: start the pipeline thread, answer with the job id
SubmitStart(j) ==
  /\ th[j].pc = "registered"
  /\ th' = [th EXCEPT ![j] = Goto(j, "l682")]
  /\ UNCHANGED <<jobs, popped, files, now, sweep>> /\ Forget

\* line 875 raises (the thread cannot be started), lines 877-880: the
\* temporary file is removed and the request is answered 500; the job dict
\* of line 862 stays in the registry
SubmitStartFails(j) ==
  /\ th[j].pc = "registered"
  /\ files' = cleanup_temp_file(j)
  /\ th' = [th EXCEPT ![j] = Goto(j, "rejected")]
  /\ UNCHANGED <<jobs, popped, now, sweep>> /\ Forget

\* ---------------------------------------------------------- process_job
Frame == UNCHANGED <<popped, files, now, sweep>> /\ Forget

\* line 682
Initializing(j) ==
  /\ th[j].pc = "l682"
  /\ WriteJob(j, [status |-> "Initializing..."], Goto(j, "l683"))
  /\ Frame

\* line 683
Progress5(j) ==
  /\ th[j].pc = "l683"
  /\ WriteJob(j, [progress |-> 5], Goto(j, "l686"))
  /\ Frame

\* lines 686-697: open the source, select the pages, write the stage label.
\* A page count of 0 stands for an upload PyMuPDF cannot open.
OpenAndSelect(j) ==
  /\ th[j].pc = "l686"
  /\ IF j \notin DOMAIN files
     THEN Raise(j, th[j], "no such file") /\ UNCHANGED jobs
     ELSE IF files[j] = 0
     THEN Raise(j, th[j], "Failed to open file") /\ UNCHANGED jobs
     ELSE LET n == files[j]
              keep == IF th[j].extract_pages # <<>>
                      THEN SelectPages(th[j].extract_pages, n)
                      ELSE AllPages(n)
              label == IF th[j].extract_pages # <<>>
                       THEN ExtractLabel(keep) ELSE AllLabel
              loc == [th[j] EXCEPT !.page_count = n, !.keep = keep]
          IN  IF th[j].extract_pages # <<>> /\ keep = <<>>
              THEN Raise(j, loc, "No valid pages selected.") /\ UNCHANGED jobs
              ELSE WriteJob(j, [status |-> label], [loc EXCEPT !.pc = "l698"])
  /\ Frame

\* line 698
Progress10(j) ==
  /\ th[j].pc = "l698"
  /\ WriteJob(j, [progress |-> 10], Goto(j, "l700"))
  /\ Frame

\* lines 700-715: copy each selected page; `how[i]` is what insert_pdf does
\* for the i-th page. Then the next stage label (line 719 or 750).
CopyOutcomes == {"ok", "links_invalid", "both_fail", "other_error"}

CopyFatal(o) == o \in {"both_fail", "other_error"}

CopyMsg(o) == IF o = "both_fail" THEN "bad page" ELSE "cannot copy page"

\* the calls of insert_pdf for one page: the second one (links=False) is
\* made in the handler of ValueError only (line 708)
CopyAttempts(o) == IF o \in {"links_invalid", "both_fail"} THEN 2 ELSE 1

\* lines 718-719 / 750: the stage after the copy
AfterCopyAlwaysCleans(extreme) ==
  [status |-> "Cleaning annotations & attachments...", pc |-> "l720"]

AfterCopy(extreme) ==
  IF extreme
  THEN [status |-> "Cleaning annotations & attachments...", pc |-> "l720"]
  ELSE [status |-> "Recompressing images...", pc |-> "l751"]

CopyPages(j, how, annots, embfiles) ==
  /\ th[j].pc = "l700"
  /\ DOMAIN how = 1..Len(th[j].keep)
  /\ DOMAIN annots = 1..Len(th[j].keep)
  /\ LET keep == th[j].keep
         bad == {i \in 1..Len(keep) : CopyFatal(how[i])}
         first == CHOOSE i \in bad : \A k \in bad : i <= k
         work == [i \in 1..Len(keep) |->
                    [page |-> keep[i], links |-> how[i] = "ok"]]
         attempts == [i \in 1..Len(keep) |-> CopyAttempts(how[i])]
         loc == [th[j] EXCEPT !.work = work, !.attempts = attempts,
                              !.annots = annots, !.embfiles = embfiles,
                              !.content = Some([annots |-> annots,
                                                embfiles |-> embfiles])]
     IN  IF bad # {}
         THEN /\ Raise(j, [th[j] EXCEPT !.work = SubSeq(work, 1, first - 1),
                                        !.attempts = SubSeq(attempts, 1, first)],
                       CopyMsg(how[first]))
              /\ UNCHANGED jobs
         ELSE LET next == AfterCopy(th[j].extreme_compression)
              IN  WriteJob(j, [status |-> next.status], [loc EXCEPT !.pc = next.pc])
  /\ Frame

\* line 720
Progress15(j) ==
  /\ th[j].pc = "l720"
  /\ WriteJob(j, [progress |-> 15], Goto(j, "l721"))
  /\ Frame

\* str.lower()
LowerOf ==
  [c \in {Char(UpperCase, i) : i \in 1..Len(UpperCase)} |->
     Char(LowerCase, CHOOSE i \in 1..Len(UpperCase) : Char(UpperCase, i) = c)]

LowerChar(c) == IF c \in DOMAIN LowerOf THEN LowerOf[c] ELSE c

RECURSIVE lower(_)
lower(s) ==
  IF Len(s) = 0 THEN s
  ELSE lower(SubSeq(s, 1, Len(s) - 1)) \o LowerChar(Char(s, Len(s)))

\* str.endswith
endswith(s, suffix) ==
  Len(s) >= Len(suffix) /\ SubSeq(s, Len(s) - Len(suffix) + 1, Len(s)) = suffix

\* lines 741-743; embfile_info gives None or a dict whose "filename" may be
\* None
IsScriptCaseSensitive(info) ==
  endswith(IF info = None \/ info[1].filename = None THEN ""
           ELSE info[1].filename[1], ".js")

IsScript(info) ==
  LET fname == IF info = None THEN ""
               ELSE lower(IF info[1].filename = None THEN ""
                          ELSE info[1].filename[1])
  IN  endswith(fname, ".js")

RECURSIVE RemoveScripts(_)
RemoveScripts(infos) ==
  IF Len(infos) = 0 THEN infos
  ELSE LET rest == RemoveScripts(SubSeq(infos, 1, Len(infos) - 1))
       IN  IF IsScript(infos[Len(infos)]) THEN rest
           ELSE Append(rest, infos[Len(infos)])

\* what the environment does to lines 721-747. stop_page: the page at which
\* page.annots() or the iteration raises (0: none), caught at line 734;
\* undeletable: how many annotations of a page delete_annot fails on, each
\* absorbed at line 732; emb_stop: the iteration of the loop of line 740 in
\* which embfile_info or embfile_del raises (0: none; embfile_count raising
\* is iteration 1), caught at line 746
CleanOk == [stop_page |-> 0, undeletable |-> 0, emb_stop |-> 0]

DeleteAnnots(annots, how) ==
  [i \in 1..Len(annots) |->
     IF how.stop_page # 0 /\ i >= how.stop_page THEN annots[i]
     ELSE Min2(annots[i], how.undeletable)]

\* the loop runs from the last index down: iteration t handles the
\* embedded file at position count - t + 1
DeleteScripts(embfiles, how) ==
  LET count == Len(embfiles)
      done == IF how.emb_stop = 0 THEN 0 ELSE count - how.emb_stop + 1
  IN  SubSeq(embfiles, 1, done) \o RemoveScripts(SubSeq(embfiles, done + 1, count))

\* lines 721-750: best-effort cleanup (never raises), then the next label
Cleanup(j, how) ==
  /\ th[j].pc = "l721"
  /\ how.stop_page <= Len(th[j].annots)
  /\ how.emb_stop <= Max2(1, Len(th[j].embfiles))
  /\ WriteJob(j, [status |-> "Recompressing images..."],
              [th[j] EXCEPT !.annots = DeleteAnnots(@, how),
                            !.embfiles = DeleteScripts(@, how),
                            !.clean_how = Some(how),
                            !.pc = "l751"])
  /\ Frame

\* line 751
Progress20(j) ==
  /\ th[j].pc = "l751"
  /\ WriteJob(j, [progress |-> 20], Goto(j, "l752"))
  /\ Frame

\* lines 752-753: the unique image xrefs of the working document
CollectImages(j, total) ==
  /\ th[j].pc = "l752"
  /\ th' = [th EXCEPT ![j] = [@ EXCEPT !.total = total, !.idx = 1,
                                       !.pc = IF total = 0 THEN "l778" ELSE "l755"]]
  /\ UNCHANGED <<jobs, popped, files, now, sweep>> /\ Forget

\* lines 755-775: one iteration of the image loop. "empty": extract_image
\* gives no bytes and `continue` skips line 775; "fail": an exception is
\* absorbed; "ok": the stream is replaced.
ImageOutcomes == {"ok", "fail", "empty"}

RecompressImageOrRaise(j, how) ==
  /\ th[j].pc = "l755"
  /\ LET idx == th[j].idx
         total == th[j].total
         loc == [th[j] EXCEPT
                   !.images = Append(@, IF how = "ok" THEN "new" ELSE "prior"),
                   !.image_how = Append(@, how),
                   !.idx = idx + 1,
                   !.pc = IF idx < total THEN "l755" ELSE "l778"]
     IN  IF how = "fail"
         THEN Raise(j, th[j], "cannot decode image") /\ UNCHANGED jobs
         ELSE IF how = "empty"
         THEN th' = [th EXCEPT ![j] = loc] /\ UNCHANGED jobs
         ELSE WriteJob(j, [progress |-> ImageProgress(idx, total)], loc)
  /\ Frame

RecompressImage(j, how) ==
  /\ th[j].pc = "l755"
  /\ LET idx == th[j].idx
         total == th[j].total
         loc == [th[j] EXCEPT
                   !.images = Append(@, IF how = "ok" THEN "new" ELSE "prior"),
                   !.image_how = Append(@, how),
                   !.idx = idx + 1,
                   !.pc = IF idx < total THEN "l755" ELSE "l778"]
     IN  IF how = "empty"
         THEN th' = [th EXCEPT ![j] = loc] /\ UNCHANGED jobs
         ELSE WriteJob(j, [progress |-> ImageProgress(idx, total)], loc)
  /\ Frame

\* line 778
Saving(j) ==
  /\ th[j].pc = "l778"
  /\ WriteJob(j, [status |-> "Saving (PyMuPDF)..."], Goto(j, "l779"))
  /\ Frame

\* line 779
Progress82(j) ==
  /\ th[j].pc = "l779"
  /\ WriteJob(j, [progress |-> 82], Goto(j, "l782"))
  /\ Frame

\* lines 780-786: the structural save, then the next label
StructuralSave(j, ok) ==
  /\ th[j].pc = "l782"
  /\ IF ~ok
     THEN Raise(j, th[j], "cannot save") /\ UNCHANGED jobs
     ELSE LET bytes == [pages |-> th[j].work, images |-> th[j].images,
                        annots |-> th[j].annots, embfiles |-> th[j].embfiles,
                        passes |-> <<>>]
          IN  WriteJob(j, [status |-> "Applying Ghostscript compression..."],
                       [th[j] EXCEPT !.pymupdf_bytes = Some(bytes), !.pc = "l787"])
  /\ Frame

\* line 787
Progress90(j) ==
  /\ th[j].pc = "l787"
  /\ WriteJob(j, [progress |-> 90], Goto(j, "l788"))
  /\ Frame

\* lines 788-791
Ghostscript(j, how) ==
  /\ th[j].pc = "l788"
  /\ LET out == ghostscript_compress(th[j].pymupdf_bytes[1],
                                     th[j].extreme_compression, how)
     IN  WriteJob(j, [status |-> "Optimizing final PDF structure..."],
                  [th[j] EXCEPT !.gs_bytes = Some(out), !.gs_how = Some(how),
                                !.pc = "l792"])
  /\ Frame

\* line 792
Progress95(j) ==
  /\ th[j].pc = "l792"
  /\ WriteJob(j, [progress |-> 95], Goto(j, "l793"))
  /\ Frame

\* lines 793-800
Finish(j, how) ==
  /\ th[j].pc = "l793"
  /\ LET final_bytes == pikepdf_optimize(th[j].gs_bytes[1], how)
     IN  WriteJob(j, DoneFields(final_bytes),
                  [th[j] EXCEPT !.pike_how = Some(how), !.pc = "finished"])
  /\ Frame

\* lines 803-805: the handler's own registry lookup can raise KeyError,
\* which nothing catches: the thread dies
Except(j) ==
  /\ th[j].pc = "except"
  /\ IF j \in DOMAIN jobs
     THEN /\ jobs' = [jobs EXCEPT ![j] = DictUpdate(@, ErrorFields(th[j].exc[1]))]
          /\ th' = [th EXCEPT ![j] = Goto(j, "finished")]
     ELSE /\ th' = [th EXCEPT ![j] = Goto(j, "dead")]
          /\ UNCHANGED jobs
  /\ Frame

\* ---------------------------------------------------- cleanup_old_jobs
\* a popped job dict lives on only while a request still holds a reference
StatusHolds(j) ==
  st.job_id = j /\ st.pc \in {"read_status", "read_progress", "read_error"}

DownloadHolds(j) ==
  dl.job_id = j /\ dl.pc \in {"check_status", "check_buffer"}

Referenced(j) == StatusHolds(j) \/ DownloadHolds(j)

\* line 911 and the start of line 912: now, and the iterator over
\* jobs.items(), which remembers the size of the dict
SweepBegin ==
  /\ sweep.pc = "sleep"
  /\ sweep' = [sweep EXCEPT !.pc = "scanning", !.now = now,
                            !.size = Cardinality(DOMAIN jobs)]
  /\ UNCHANGED <<jobs, popped, files, now, th>> /\ Forget

\* line 912, the iteration: the ids of the jobs older than max_age_sec. If
\* /compress has registered a job since the iterator was made, the iterator
\* raises RuntimeError (dictionary changed size during iteration);
\* cleanup_worker logs it (lines 925-927) and sleeps again
SweepScan ==
  /\ sweep.pc = "scanning"
  /\ IF Cardinality(DOMAIN jobs) # sweep.size
     THEN sweep' = [sweep EXCEPT !.pc = "sleep", !.now = 0, !.size = 0]
     ELSE LET old == {j \in DOMAIN jobs : Expired(jobs[j], sweep.now)}
          IN  sweep' = [sweep EXCEPT !.pc = "removing", !.size = 0,
                                     !.to_remove = old, !.expired = old]
  /\ UNCHANGED <<jobs, popped, files, now, th>> /\ Forget

\* lines 913-917, one iteration: pop the job, delete its input file
SweepPop(jid) ==
  /\ sweep.pc = "removing"
  /\ jid \in sweep.to_remove
  /\ sweep' = [sweep EXCEPT !.to_remove = @ \ {jid}]
  /\ IF jid \in DOMAIN jobs
     THEN /\ jobs' = Without(jobs, jid)
          /\ popped' = IF Referenced(jid) THEN (jid :> jobs[jid]) @@ popped
                       ELSE popped
          /\ files' = cleanup_temp_file(jobs[jid].input_path)
     ELSE UNCHANGED <<jobs, popped, files>>
  /\ UNCHANGED <<now, th>> /\ Forget

\* the loop of line 913 is over: back to time.sleep (line 923)
SweepDone ==
  /\ sweep.pc = "removing"
  /\ sweep.to_remove = {}
  /\ sweep' = [sweep EXCEPT !.pc = "sleep", !.swept = @ \cup sweep.expired,
                            !.expired = {}, !.now = 0]
  /\ UNCHANGED <<jobs, popped, files, now, th>> /\ Forget

\* time passes
Tick ==
  /\ now < MaxTicks * TickSec
  /\ now' = now + TickSec
  /\ UNCHANGED <<jobs, popped, files, th, sweep>> /\ Forget

\* -------------------------------------------------------------- /status
\* the reference a request held is dropped when it answers
Drop(j, held) ==
  IF j \in DOMAIN popped /\ ~held THEN Without(popped, j) ELSE popped

\* line 884-886
StatusLookup(job_id) ==
  /\ st.pc \in {"idle", "responded"}
  /\ IF job_id \in DOMAIN jobs
     THEN st' = [IdleStatus EXCEPT !.pc = "read_status", !.job_id = job_id,
                                   !.found = TRUE]
     ELSE st' = [IdleStatus EXCEPT !.pc = "responded", !.job_id = job_id,
                                   !.status = Some("error"),
                                   !.error = Some("Job not found"), !.code = 404]
  /\ dl' = Fade(dl, IdleDownload)
  /\ UNCHANGED <<jobs, popped, files, now, th, sweep, an, rs, closed>>

\* line 888
StatusReadStatus ==
  /\ st.pc = "read_status"
  /\ st' = [st EXCEPT !.pc = "read_progress", !.status = Some(JobOf(st.job_id).status)]
  /\ dl' = Fade(dl, IdleDownload)
  /\ UNCHANGED <<jobs, popped, files, now, th, sweep, an, rs, closed>>

\* line 889
StatusReadProgress ==
  /\ st.pc = "read_progress"
  /\ st' = [st EXCEPT !.pc = "read_error", !.progress = Some(JobOf(st.job_id).progress)]
  /\ dl' = Fade(dl, IdleDownload)
  /\ UNCHANGED <<jobs, popped, files, now, th, sweep, an, rs, closed>>

StatusReadErrorNone ==
  /\ st.pc = "read_error"
  /\ st' = [st EXCEPT !.pc = "responded", !.error = None, !.code = 200]
  /\ popped' = Drop(st.job_id, DownloadHolds(st.job_id))
  /\ dl' = Fade(dl, IdleDownload)
  /\ UNCHANGED <<jobs, files, now, th, sweep, an, rs, closed>>

\* lines 890-891
StatusReadError ==
  /\ st.pc = "read_error"
  /\ st' = [st EXCEPT !.pc = "responded", !.error = JobOf(st.job_id).error,
                      !.code = 200]
  /\ popped' = Drop(st.job_id, DownloadHolds(st.job_id))
  /\ dl' = Fade(dl, IdleDownload)
  /\ UNCHANGED <<jobs, files, now, th, sweep, an, rs, closed>>

\* ------------------------------------------------------------ /download
\* lines 895-896, `not job`
DownloadLookup(job_id) ==
  /\ dl.pc \in {"idle", "responded"}
  /\ IF job_id \in DOMAIN jobs
     THEN dl' = [IdleDownload EXCEPT !.pc = "check_status", !.job_id = job_id,
                                     !.found = TRUE]
     ELSE dl' = [IdleDownload EXCEPT !.pc = "responded", !.job_id = job_id,
                                     !.code = 404]
  /\ st' = Fade(st, IdleStatus)
  /\ UNCHANGED <<jobs, popped, files, now, th, sweep, an, rs, closed>>

DownloadSendUnchecked ==
  /\ dl.pc = "check_status"
  /\ dl' = [dl EXCEPT !.pc = "responded", !.status = Some(JobOf(dl.job_id).status),
                      !.body = JobOf(dl.job_id).output_buffer, !.code = 200]
  /\ popped' = Drop(dl.job_id, StatusHolds(dl.job_id))
  /\ st' = Fade(st, IdleStatus)
  /\ UNCHANGED <<jobs, files, now, th, sweep, an, rs, closed>>

\* line 896, job.get("status") != "done"
DownloadCheckStatus ==
  /\ dl.pc = "check_status"
  /\ LET s == JobOf(dl.job_id).status
     IN  IF s # "done"
         THEN /\ dl' = [dl EXCEPT !.pc = "responded", !.status = Some(s), !.code = 404]
              /\ popped' = Drop(dl.job_id, StatusHolds(dl.job_id))
         ELSE /\ dl' = [dl EXCEPT !.pc = "check_buffer", !.status = Some(s)]
              /\ UNCHANGED popped
  /\ st' = Fade(st, IdleStatus)
  /\ UNCHANGED <<jobs, files, now, th, sweep, an, rs, closed>>

\* lines 896-905: not job.get("output_buffer"), buf.seek(0), send_file. The
\* response streams the BytesIO and closes it when it has been sent (the
\* close() of the WSGI file wrapper closes the wrapped file); seek on a
\* closed BytesIO raises ValueError, which Flask answers with 500.
DownloadCheckBuffer ==
  /\ dl.pc = "check_buffer"
  /\ LET buf == JobOf(dl.job_id).output_buffer
     IN  IF buf = None
         THEN /\ dl' = [dl EXCEPT !.pc = "responded", !.code = 404]
              /\ UNCHANGED closed
         ELSE IF dl.job_id \in closed
         THEN /\ dl' = [dl EXCEPT !.pc = "responded", !.code = 500]
              /\ UNCHANGED closed
         ELSE /\ dl' = [dl EXCEPT !.pc = "responded", !.body = buf, !.code = 200]
              /\ closed' = closed \cup {dl.job_id}
  /\ popped' = Drop(dl.job_id, StatusHolds(dl.job_id))
  /\ st' = Fade(st, IdleStatus)
  /\ UNCHANGED <<jobs, files, now, th, sweep, an, rs>>

\* ------------------------------------------------------- classify_page
\* a page is the text PyMuPDF extracts from its bottom-right corner (the
\* title block) and from the rest of the page; `raises` says that get_text
\* raises. The full-page text holds the corner's text as well.
\* str.upper()
UpperOf ==
  [c \in {Char(LowerCase, i) : i \in 1..Len(LowerCase)} |->
     Char(UpperCase, CHOOSE i \in 1..Len(LowerCase) : Char(LowerCase, i) = c)]

UpperChar(c) == IF c \in DOMAIN UpperOf THEN UpperOf[c] ELSE c

RECURSIVE upper(_)
upper(s) ==
  IF Len(s) = 0 THEN s
  ELSE upper(SubSeq(s, 1, Len(s) - 1)) \o UpperChar(Char(s, Len(s)))

\* lines 574-580
corner_text(page) == IF page.raises THEN "" ELSE upper(page.corner)

full_text(page) ==
  IF page.raises THEN "" ELSE upper(page.rest \o "\n" \o page.corner)

\* the character classes of the patterns: \w (for \b), \d and [ -.], the
\* range from the blank to the full stop
WordChars ==
  {Char(UpperCase, i) : i \in 1..Len(UpperCase)}
    \cup {Char(LowerCase, i) : i \in 1..Len(LowerCase)}
    \cup {Digits[d] : d \in 1..Len(Digits)} \cup {"_"}

IsWordChar(c) == c \in WordChars

SepChars == " !\"#$%&'()*+,-."

IsSepChar(c) == c \in {Char(SepChars, i) : i \in 1..Len(SepChars)}

DigitAt(text, i) == i <= Len(text) /\ IsDigitChar(Char(text, i))

\* [ -.]?\d from position i on
SepDigitAt(text, i) ==
  \/ DigitAt(text, i)
  \/ i <= Len(text) /\ IsSepChar(Char(text, i)) /\ DigitAt(text, i + 1)

\* re.search(r"\b[L][O]?[ -.]?\d", text), O absent when opt = ""
re_search(pat, text) ==
  \E i \in 1..Len(text) :
    /\ Char(text, i) = pat.letter
    /\ i = 1 \/ ~IsWordChar(Char(text, i - 1))
    /\ \/ SepDigitAt(text, i + 1)
       \/ /\ pat.opt # ""
          /\ i + 1 <= Len(text) /\ Char(text, i + 1) = pat.opt
          /\ SepDigitAt(text, i + 2)

\* w in text
Contains(text, w) ==
  \E i \in 0..(Len(text) - Len(w)) : SubSeq(text, i + 1, i + Len(w)) = w

\* lines 582-592, in the order of the dict
patterns ==
  << [k |-> "cover_title", letter |-> "G", opt |-> ""],
     [k |-> "architectural", letter |-> "A", opt |-> ""],
     [k |-> "structural", letter |-> "S", opt |-> ""],
     [k |-> "mechanical", letter |-> "M", opt |-> ""],
     [k |-> "electrical", letter |-> "E", opt |-> ""],
     [k |-> "plumbing", letter |-> "P", opt |-> ""],
     [k |-> "landscape", letter |-> "L", opt |-> ""],
     [k |-> "civil", letter |-> "C", opt |-> ""],
     [k |-> "fire_safety", letter |-> "F", opt |-> "P"] >>

\* the discipline keywords in alphabetical order of the categories
discipline_keywords_sorted ==
  << [k |-> "architectural", words |-> <<"FLOOR PLAN", "ELEVATION", "ARCHITECTURAL">>],
     [k |-> "civil", words |-> <<"CIVIL", "GRADING", "UTILITIES", "SITE PLAN">>],
     [k |-> "electrical", words |-> <<"ELECTRICAL", "LIGHTING", "PANEL", "ONE-LINE">>],
     [k |-> "fire_safety",
      words |-> <<"FIRE PROTECTION", "FIRE ALARM", "SPRINKLER", "EGRESS">>],
     [k |-> "landscape", words |-> <<"LANDSCAPE", "PLANTING", "IRRIGATION">>],
     [k |-> "mechanical", words |-> <<"HVAC", "MECHANICAL", "DUCTWORK">>],
     [k |-> "plumbing",
      words |-> <<"PLUMBING", "SANITARY", "STORM DRAIN", "RISER DIAGRAM">>],
     [k |-> "structural", words |-> <<"STRUCTURAL", "FOUNDATION", "FRAMING">>] >>

\* lines 600-609, in the order of the dict
discipline_keywords ==
  << [k |-> "fire_safety",
      words |-> <<"FIRE PROTECTION", "FIRE ALARM", "SPRINKLER", "EGRESS">>],
     [k |-> "mechanical", words |-> <<"HVAC", "MECHANICAL", "DUCTWORK">>],
     [k |-> "electrical", words |-> <<"ELECTRICAL", "LIGHTING", "PANEL", "ONE-LINE">>],
     [k |-> "plumbing",
      words |-> <<"PLUMBING", "SANITARY", "STORM DRAIN", "RISER DIAGRAM">>],
     [k |-> "civil", words |-> <<"CIVIL", "GRADING", "UTILITIES", "SITE PLAN">>],
     [k |-> "architectural", words |-> <<"FLOOR PLAN", "ELEVATION", "ARCHITECTURAL">>],
     [k |-> "structural", words |-> <<"STRUCTURAL", "FOUNDATION", "FRAMING">>],
     [k |-> "landscape", words |-> <<"LANDSCAPE", "PLANTING", "IRRIGATION">>] >>

\* the administrative keywords with the categories in reverse order
general_reversed ==
  << [k |-> "details",
      words |-> <<"DETAIL", "CONNECTION", "ASSEMBLY", "SECTION DETAIL">>],
     [k |-> "schedules",
      words |-> <<"SCHEDULE", "DOOR SCHEDULE", "WINDOW SCHEDULE", "FINISH SCHEDULE">>],
     [k |-> "cover_title",
      words |-> <<"COVER", "SHEET INDEX", "GENERAL NOTES", "LEGEND", "ABBREVIATIONS">>] >>

\* lines 614-618, in the order of the dict
general ==
  << [k |-> "cover_title",
      words |-> <<"COVER", "SHEET INDEX", "GENERAL NOTES", "LEGEND", "ABBREVIATIONS">>],
     [k |-> "schedules",
      words |-> <<"SCHEDULE", "DOOR SCHEDULE", "WINDOW SCHEDULE", "FINISH SCHEDULE">>],
     [k |-> "details",
      words |-> <<"DETAIL", "CONNECTION", "ASSEMBLY", "SECTION DETAIL">>] >>

\* the key of the first entry of a table (a dict in its order) among the
\* entries at the places `hits`
FirstOf(table, hits) ==
  IF hits = {} THEN None
  ELSE Some(table[CHOOSE i \in hits : \A h \in hits : i <= h].k)

LastPattern(text) ==
  LET hits == {i \in 1..Len(patterns) : re_search(patterns[i], text)}
  IN  IF hits = {} THEN None
      ELSE Some(patterns[CHOOSE i \in hits : \A h \in hits : i >= h].k)

\* lines 593-595 and 596-598: the loop over the patterns for one text
FirstPattern(text) ==
  FirstOf(patterns, {i \in 1..Len(patterns) : re_search(patterns[i], text)})

\* lines 610-612 and 619-621: any(w in full_text for w in words)
FirstKeyword(table, text) ==
  FirstOf(table, {i \in 1..Len(table) :
                    \E w \in 1..Len(table[i].words) : Contains(text, table[i].words[w])})

\* classify_page, lines 570-623
classify_page(page) ==
  LET byCorner == FirstPattern(corner_text(page))
      byFull == FirstPattern(full_text(page))
      byDiscipline == FirstKeyword(discipline_keywords, full_text(page))
      byGeneral == FirstKeyword(general, full_text(page))
  IN  IF byCorner # None THEN byCorner[1]
      ELSE IF byFull # None THEN byFull[1]
      ELSE IF byDiscipline # None THEN byDiscipline[1]
      ELSE IF byGeneral # None THEN byGeneral[1]
      ELSE "other"

\* --------------------------------------------------- analyze_pdf_pages
\* lines 555-559, the keys of analysis["sections"]
Categories ==
  {"architectural", "structural", "mechanical", "electrical", "plumbing",
   "landscape", "civil", "fire_safety", "cover_title", "details", "schedules",
   "other"}

PrependPage(sections, ptype, page_num) ==
  [sections EXCEPT ![ptype] = <<page_num>> \o @]

\* line 563: analysis["sections"][ptype].append(page_num)
AppendPage(sections, ptype, page_num) ==
  [sections EXCEPT ![ptype] = Append(@, page_num)]

\* lines 552-560: open the document, the empty analysis; any exception
\* ends the call with None (lines 566-568)
AnalyzeOpen ==
  /\ an.pc = "call"
  /\ IF an.doc.readable
     THEN an' = [an EXCEPT !.pc = "loop", !.page_num = 1,
                           !.analysis = Some([total_pages |-> Len(an.doc.pages),
                                              sections |-> [c \in Categories |-> <<>>]])]
     ELSE an' = [an EXCEPT !.pc = "returned", !.result = None]
  /\ UNCHANGED <<jobs, popped, files, now, th, sweep, st, dl, rs, closed>>

\* lines 561-563, one iteration of the loop over enumerate(doc, start=1)
AnalyzePage ==
  /\ an.pc = "loop"
  /\ an.page_num <= Len(an.doc.pages)
  /\ LET ptype == classify_page(an.doc.pages[an.page_num])
         analysis == an.analysis[1]
     IN  an' = [an EXCEPT
                  !.page_num = @ + 1,
                  !.analysis = Some([analysis EXCEPT
                     !.sections = AppendPage(@, ptype, an.page_num)])]
  /\ UNCHANGED <<jobs, popped, files, now, th, sweep, st, dl, rs, closed>>

\* lines 564-565
AnalyzeReturn ==
  /\ an.pc = "loop"
  /\ an.page_num > Len(an.doc.pages)
  /\ an' = [an EXCEPT !.pc = "returned", !.result = an.analysis]
  /\ UNCHANGED <<jobs, popped, files, now, th, sweep, st, dl, rs, closed>>

\* ----------------------------------------------------- _resample_image
\* ImageOps.exif_transpose, lines 635-638: an orientation tag of a quarter
\* turn swaps the sides; when the call raises the image is left as it was
ExifOutcomes == {"none", "rotated", "raises"}

exif_transpose(pil_img, how) ==
  IF how = "rotated"
  THEN [pil_img EXCEPT !.width = pil_img.height, !.height = pil_img.width]
  ELSE pil_img

\* Image.thumbnail((size, size)), line 642: the larger side becomes `size`,
\* the other side is the floor or the ceiling of its scaled length, the one
\* nearer to the aspect ratio (the floor on a tie), and at least 1
RoundAspect(f, c, keyf, keyc) == Max2(IF keyf <= keyc THEN f ELSE c, 1)

thumbnail(pil_img, size) ==
  LET w == pil_img.width
      h == pil_img.height
  IN  IF w <= h
      THEN LET f == (size * w) \div h
               c == IF (size * w) % h = 0 THEN f ELSE f + 1
           IN  [pil_img EXCEPT
                  !.width = RoundAspect(f, c, Abs(w * size - f * h), Abs(w * size - c * h)),
                  !.height = size]
      ELSE LET f == (size * h) \div w
               c == IF (size * h) % w = 0 THEN f ELSE f + 1
           IN  [pil_img EXCEPT
                  !.width = size,
                  !.height = RoundAspect(f, c,
                               IF f = 0 THEN 0 ELSE Abs(w * f - size * h) * c,
                               IF f = 0 THEN 1 ELSE Abs(w * c - size * h) * f)]

\* line 658: quality=max(20, min(95, quality))
NoClamp(quality) == quality

ClampQuality(quality) == Max2(20, Min2(95, quality))

\* lines 644-659: the encoding and what is encoded
Encode(pil_img, mode, quality, extreme) ==
  IF extreme \/ mode = "line_art"
  THEN [format |-> "TIFF", compression |-> "group4", quality |-> None,
        color |-> "1", width |-> pil_img.width, height |-> pil_img.height]
  ELSE [format |-> "JPEG", compression |-> "jpeg",
        quality |-> Some(ClampQuality(quality)),
        color |-> IF mode = "general" THEN "L" ELSE "RGB",
        width |-> pil_img.width, height |-> pil_img.height]

\* lines 635-638
ResampleTranspose ==
  /\ rs.pc = "call"
  /\ rs' = [rs EXCEPT !.pil_img = exif_transpose(@, rs.exif), !.pc = "l641"]
  /\ UNCHANGED <<jobs, popped, files, now, th, sweep, st, dl, an, closed>>

\* lines 641-642
ResampleDownscale ==
  /\ rs.pc = "l641"
  /\ rs' = [rs EXCEPT
              !.pil_img = IF Max2(@.width, @.height) > rs.max_dim
                          THEN thumbnail(@, rs.max_dim) ELSE @,
              !.pc = "l645"]
  /\ UNCHANGED <<jobs, popped, files, now, th, sweep, st, dl, an, closed>>

\* lines 645-659
ResampleEncode ==
  /\ rs.pc = "l645"
  /\ rs' = [rs EXCEPT
              !.result = Some(Encode(rs.pil_img, rs.mode, rs.quality, rs.extreme)),
              !.pc = "returned"]
  /\ UNCHANGED <<jobs, popped, files, now, th, sweep, st, dl, an, closed>>

\* ------------------------------------------------------- specifications
\* the steps of one pipeline thread; the sets are what the libraries, the
\* external tools and the working document may do
PipelineWith(j, copyOuts, counts, lists, cleanOuts, totals, imageOuts, saveOks, gsOuts, pikeOuts) ==
  \/ Initializing(j)
  \/ Progress5(j)
  \/ OpenAndSelect(j)
  \/ Progress10(j)
  \/ /\ th[j].pc = "l700"
     /\ \E how \in [1..Len(th[j].keep) -> copyOuts],
           annots \in [1..Len(th[j].keep) -> counts], embfiles \in lists :
          CopyPages(j, how, annots, embfiles)
  \/ Progress15(j)
  \/ /\ th[j].pc = "l721"
     /\ \E how \in cleanOuts : Cleanup(j, how)
  \/ Progress20(j)
  \/ \E total \in totals : CollectImages(j, total)
  \/ \E how \in imageOuts : RecompressImage(j, how)
  \/ Saving(j)
  \/ Progress82(j)
  \/ \E ok \in saveOks : StructuralSave(j, ok)
  \/ Progress90(j)
  \/ \E how \in gsOuts : Ghostscript(j, how)
  \/ Progress95(j)
  \/ \E how \in pikeOuts : Finish(j, how)
  \/ Except(j)

SubmitWith(j, forms, extremes, pageCounts) ==
  \/ \E form \in forms, extreme \in extremes, n \in pageCounts :
       SubmitSave(j, form, extreme, n)
  \/ SubmitFail(j)
  \/ SubmitRegister(j)
  \/ SubmitStart(j)
  \/ SubmitStartFails(j)

Sweep ==
  \/ SweepBegin
  \/ SweepScan
  \/ \E jid \in JobIds : SweepPop(jid)
  \/ SweepDone

Status ==
  \/ \E job_id \in JobIds : StatusLookup(job_id)
  \/ StatusReadStatus
  \/ StatusReadProgress
  \/ StatusReadError

Download ==
  \/ \E job_id \in JobIds : DownloadLookup(job_id)
  \/ DownloadCheckStatus
  \/ DownloadCheckBuffer

\* one job from its upload to the end of its thread: every input and every
\* outcome of the libraries and tools
NextJob ==
  \/ SubmitWith(1, PageForms, BOOLEAN, 0..MaxPages)
  \/ PipelineWith(1, CopyOutcomes, {0}, {<<>>}, {CleanOk}, 0..MaxImages,
                  ImageOutcomes, BOOLEAN, GsOutcomes, PikeOutcomes)

SpecJob == Init /\ [][NextJob]_vars

\* the service around one job on a one-page upload: the pipeline thread,
\* the sweep, a /status and a /download request (for the job's token or for
\* a token never issued)
Next ==
  \/ SubmitWith(1, {<<>>, <<"2">>}, BOOLEAN, {1})
  \/ PipelineWith(1, {"ok"}, {0}, {<<>>}, {CleanOk}, {1}, {"ok"}, {TRUE}, {"ok"},
                 {"ok"})
  \/ Sweep
  \/ Tick
  \/ Status
  \/ Download

Spec == Init /\ [][Next]_vars

\* two submissions and their pipeline threads beside the sweep: the second
\* request can register its job while the sweep scans or removes
NextSweep ==
  \/ SubmitWith(1, {<<>>}, {FALSE}, {1})
  \/ PipelineWith(1, {"ok"}, {0}, {<<>>}, {CleanOk}, {0}, {"ok"}, {TRUE}, {"ok"},
                 {"ok"})
  \/ SubmitWith(2, {<<>>}, {TRUE}, {1})
  \/ PipelineWith(2, {"ok"}, {0}, {<<>>}, {CleanOk}, {1}, {"ok"}, {TRUE}, {"ok"},
                 {"ok"})
  \/ Sweep
  \/ Tick

SpecSweep == Init /\ [][NextSweep]_vars

\* the documents analyze_pdf_pages is called with: title-block texts and
\* page texts of drawing sheets, a page whose text extraction raises, a file
\* PyMuPDF cannot open
SheetCorners == {"Sheet A-101", "s-201 A-101", "FP-1"}

PlainCorners == {"", "Scale 1:50"}

RestTexts ==
  {"Notes", "STRUCTURAL FOUNDATION PLAN", "Floor plan, HVAC ductwork",
   "Door schedule and details", "General Notes - see detail",
   "See sheet C-3 for grading"}

Pages ==
  [corner : SheetCorners, rest : {"Notes", "Floor plan, HVAC ductwork"},
   raises : {FALSE}]
    \cup [corner : PlainCorners, rest : RestTexts, raises : {FALSE}]
    \cup {[corner |-> "Sheet A-101", rest |-> "Floor plan, HVAC ductwork",
            raises |-> TRUE]}

Documents ==
  {[readable |-> TRUE, pages |-> ps] :
     ps \in UNION {[1..n -> Pages] : n \in 0..MaxDocPages}}
    \cup {[readable |-> FALSE, pages |-> <<>>]}

InitAnalyze ==
  /\ jobs = <<>>
  /\ popped = <<>>
  /\ files = <<>>
  /\ now = 0
  /\ th = [j \in JobIds |-> NoThread]
  /\ sweep = IdleSweep
  /\ st = IdleStatus
  /\ dl = IdleDownload
  /\ an \in {[IdleAnalyze EXCEPT !.pc = "call", !.doc = d] : d \in Documents}
  /\ rs = IdleResample
  /\ closed = {}

NextAnalyze == AnalyzeOpen \/ AnalyzePage \/ AnalyzeReturn

SpecAnalyze == InitAnalyze /\ [][NextAnalyze]_vars

\* the cleanup of extreme mode: one job on a two-page upload whose pages
\* carry up to MaxAnnots annotations and whose working document holds up to
\* MaxFiles embedded files, with every outcome of the cleanup calls
EmbInfos ==
  {None, Some([filename |-> None]), Some([filename |-> Some("a.js")]),
   Some([filename |-> Some("B.JS")]), Some([filename |-> Some("js.pdf")])}

FileLists == UNION {[1..n -> EmbInfos] : n \in 0..MaxFiles}

CleanOutcomes ==
  [stop_page : 0..2, undeletable : 0..1, emb_stop : 0..MaxFiles]

NextCleanup ==
  \/ SubmitWith(1, {<<>>}, BOOLEAN, {2})
  \/ PipelineWith(1, {"ok"}, 0..MaxAnnots, FileLists, CleanOutcomes,
                  {1}, {"ok"}, BOOLEAN, {"ok"}, {"ok"})

SpecCleanup == Init /\ [][NextCleanup]_vars

\* _resample_image: the specification draws one call, with an image of up
\* to MaxSide pixels a side, and runs it
Modes == {"general", "mixed", "line_art", "photo"}
Qualities == {-5, 0, 19, 20, 21, 60, 95, 96, 200}

ResampleCalls ==
  {[pc |-> "call", src |-> [width |-> w, height |-> h],
    pil_img |-> [width |-> w, height |-> h], exif |-> e,
    max_dim |-> m, mode |-> d, quality |-> q, extreme |-> x, result |-> None] :
     w \in 1..MaxSide, h \in 1..MaxSide, e \in ExifOutcomes, m \in 1..MaxSide,
     d \in Modes, q \in Qualities, x \in BOOLEAN}

InitResample ==
  /\ jobs = <<>>
  /\ popped = <<>>
  /\ files = <<>>
  /\ now = 0
  /\ th = [j \in JobIds |-> NoThread]
  /\ sweep = IdleSweep
  /\ st = IdleStatus
  /\ dl = IdleDownload
  /\ an = IdleAnalyze
  /\ closed = {}
  /\ rs \in ResampleCalls

NextResample == ResampleTranspose \/ ResampleDownscale \/ ResampleEncode

SpecResample == InitResample /\ [][NextResample]_vars

\* ================================================================ claims
InRegistry(j) == j \in DOMAIN jobs

GsFailed == GsOutcomes \ {"ok"}

\* C1: the progress values process_job writes to a job never decrease; a
\* job in status "done" has progress exactly 100, a job in status "error"
\* has progress below 100.
C1_ProgressMonotone ==
  [][\A j \in DOMAIN jobs' :
       /\ j \in DOMAIN jobs => jobs'[j].progress >= jobs[j].progress
       /\ jobs'[j].status = "done" => jobs'[j].progress = 100
       /\ jobs'[j].status = "error" => jobs'[j].progress < 100]_vars

C1_Witness ==
  \E j \in DOMAIN jobs :
    /\ jobs[j].status = "done" /\ jobs[j].progress = 100
    /\ th[j].total = MaxImages /\ Len(th[j].images) = MaxImages

\* C2: for every job in the registry the output buffer is present exactly
\* when the status is "done", and the error message is set exactly when the
\* status is "error".
C2_BufferIffDone ==
  \A j \in DOMAIN jobs :
    /\ jobs[j].output_buffer # None <=> jobs[j].status = "done"
    /\ jobs[j].error # None <=> jobs[j].status = "error"

C2_Witness ==
  \E j \in DOMAIN jobs :
    jobs[j].status = "done" /\ jobs[j].output_buffer # None /\ jobs[j].error = None

\* C3: /download answers with the output buffer only for a token it found in
\* the registry whose job is "done" and has a buffer (the job's own buffer);
\* for an unknown token or a status other than "done" it answers 404 without
\* bytes. (A "done" job whose buffer an earlier download has closed is
\* answered 500, also without bytes.)
C3_DownloadOnlyWhenDone ==
  dl.pc = "responded" =>
    /\ dl.code \in {200, 404, 500}
    /\ dl.code = 500 => dl.found /\ dl.status = Some("done") /\ dl.body = None
    /\ dl.code = 200 =>
         /\ dl.found /\ dl.status = Some("done") /\ dl.body # None
         /\ InRegistry(dl.job_id) =>
              /\ jobs[dl.job_id].status = "done"
              /\ jobs[dl.job_id].output_buffer = dl.body
    /\ dl.code = 404 => dl.body = None
    /\ ~dl.found => dl.code = 404
    /\ (dl.status # None /\ dl.status # Some("done")) => dl.code = 404

C3_Witness ==
  /\ dl.pc = "responded" /\ dl.code = 200
  /\ InRegistry(dl.job_id) /\ dl.body = jobs[dl.job_id].output_buffer

\* C4: /status answers 404 exactly when the token is not in the registry at
\* its lookup; for a token in the registry it answers 200 with values read
\* from that job: the error as it is now, a progress the job has reached, a
\* status label.
C4_StatusNotFoundIff ==
  st.pc = "responded" =>
    /\ st.code \in {200, 404}
    /\ st.code = 404 <=> ~st.found
    /\ st.code = 404 => ~InRegistry(st.job_id)
    /\ st.code = 200 =>
         /\ st.status # None /\ st.progress # None
         /\ InRegistry(st.job_id) =>
              /\ st.error = jobs[st.job_id].error
              /\ st.progress[1] <= jobs[st.job_id].progress
              /\ jobs[st.job_id].status = "queued" => st.status = Some("queued")

C4_Witness ==
  /\ st.pc = "responded" /\ st.code = 200 /\ InRegistry(st.job_id)
  /\ st.status = Some("error") /\ st.error = Some("No valid pages selected.")

C6_DegradesToIntermediate ==
  \A j \in JobIds :
    /\ (th[j].pc = "finished" /\ th[j].gs_how # None /\ th[j].gs_how[1] \in GsFailed
          /\ th[j].pike_how = Some("raises") /\ InRegistry(j)) =>
         /\ jobs[j].status = "done" /\ jobs[j].progress = 100
         /\ jobs[j].output_buffer = th[j].pymupdf_bytes
    /\ (th[j].pc = "except" /\ th[j].gs_how # None) =>
         th[j].exc = Some(KeyErrorMsg(j)) /\ ~InRegistry(j)

C6_Witness ==
  \E j \in DOMAIN jobs :
    /\ th[j].pc = "finished" /\ th[j].gs_how = Some("not_found")
    /\ th[j].pike_how = Some("raises") /\ jobs[j].status = "done"
    /\ jobs[j].output_buffer = th[j].pymupdf_bytes

\* the page count of a finished job's output
OutputPages(j) == Len(jobs[j].output_buffer[1].pages)

\* C7 as stated: a done job's output has as many pages as page numbers were
\* supplied, or as the source has when none was supplied.
C7_PageCountIsSubsetSize ==
  \A j \in DOMAIN jobs :
    jobs[j].status = "done" =>
      OutputPages(j) = IF th[j].extract_pages # <<>>
                       THEN Len(th[j].extract_pages) ELSE th[j].page_count

\* C7 amended: a done job's output has as many pages as there are supplied
\* page numbers within 1..page count of the source (counted as often as
\* they are listed), or as the source has when none was supplied.
C7_PageCountIsValidSubsetSize ==
  \A j \in DOMAIN jobs :
    jobs[j].status = "done" =>
      OutputPages(j) =
        IF th[j].extract_pages # <<>>
        THEN Cardinality({i \in 1..Len(th[j].extract_pages) :
                            /\ 1 <= th[j].extract_pages[i]
                            /\ th[j].extract_pages[i] <= th[j].page_count})
        ELSE th[j].page_count

C7_Witness ==
  \E j \in DOMAIN jobs :
    /\ jobs[j].status = "done" /\ Len(th[j].extract_pages) = 2
    /\ OutputPages(j) = 1

\* the (status, progress) pairs process_job's checkpoints define
Checkpoint(status, progress) ==
  \/ status = "queued" /\ progress = 0
  \/ status = "Initializing..." /\ progress = 5
  \/ status = AllLabel /\ progress = 10
  \/ (\E n \in 1..(MaxPages + 1) : status = ExtractLabel([i \in 1..n |-> 0]))
       /\ progress = 10
  \/ status = "Cleaning annotations & attachments..." /\ progress = 15
  \/ status = "Recompressing images..." /\ progress \in 20..80
  \/ status = "Saving (PyMuPDF)..." /\ progress = 82
  \/ status = "Applying Ghostscript compression..." /\ progress = 90
  \/ status = "Optimizing final PDF structure..." /\ progress = 95
  \/ status = "done" /\ progress = 100
  \/ status = "error" /\ progress < 100

\* C8 as stated: a /status response never pairs a status label with a
\* progress value of another checkpoint.
C8_NoTornRead ==
  (st.pc = "responded" /\ st.code = 200) => Checkpoint(st.status[1], st.progress[1])

\* C9 as stated (its finite part): a pipeline thread never ends without
\* having recorded "done" or "error" in its registry entry.
C9_ThreadEndsTerminal ==
  \A j \in JobIds : th[j].pc # "dead"

\* C10: the except handler of a job in the registry sets status "error" and
\* the captured message and leaves progress as it was; no job has progress
\* >= 100 with a status other than "done".
C10_ErrorFreezesProgress ==
  [][\A j \in DOMAIN jobs' :
       /\ (th[j].pc = "except" /\ th'[j].pc = "finished") =>
            /\ jobs'[j].status = "error"
            /\ jobs'[j].error = th[j].exc /\ th[j].exc # None
            /\ jobs'[j].progress = jobs[j].progress
       /\ jobs'[j].progress >= 100 => jobs'[j].status = "done"]_vars

C10_Witness ==
  \E j \in DOMAIN jobs :
    /\ jobs[j].status = "error" /\ jobs[j].progress = 82
    /\ jobs[j].error = Some("cannot save")

\* a page-selection field was sent and none of its entries is a page of
\* the document
InvalidSelection(form, page_count) ==
  form # <<>> /\ \A i \in 1..Len(form) :
    ~(isdigit(strip(form[i])) /\ int(form[i]) \in 1..page_count)

\* C11 as stated: no job is ever registered for a submission whose page
\* selection is invalid (sent, but without any page number of the document).
C11_InvalidSelectionRejected ==
  \A j \in DOMAIN jobs :
    (j \in DOMAIN files /\ files[j] > 0) => ~InvalidSelection(th[j].form, files[j])

\* the sweep has popped job j
Evicted(j) == j \in sweep.swept \cup (sweep.expired \ sweep.to_remove)

\* the pipeline thread of request j has been started (and the token returned)
Started(j) == th[j].pc \notin {"unborn", "saved", "registered", "rejected"}

\* C12: /compress registers the job as "queued" with progress 0 before it
\* starts the thread, and starting the thread (returning the token) waits
\* for no stage: the record is still as registered. Unless the sweep has
\* evicted it, the job of a started thread is in the registry, a /status
\* lookup of its token finds it, and the thread's first write finds it.
C12_RegisteredBeforeStart ==
  [][\A j \in JobIds :
       /\ (th[j].pc = "saved" /\ th'[j].pc = "registered") =>
            /\ j \in DOMAIN jobs'
            /\ jobs'[j].status = "queued" /\ jobs'[j].progress = 0
       /\ (th[j].pc = "registered" /\ th'[j].pc = "l682" /\ ~Evicted(j)) =>
            /\ j \in DOMAIN jobs' /\ jobs'[j] = jobs[j]
            /\ jobs'[j].status = "queued" /\ jobs'[j].progress = 0
       /\ Started(j)' => (j \in DOMAIN jobs' \/ Evicted(j)')
       /\ (st.pc \in {"idle", "responded"} /\ st'.pc \in {"read_status", "responded"}
             /\ st'.job_id = j /\ Started(j) /\ ~Evicted(j)) =>
            st'.found /\ st'.code # 404
       /\ (th[j].pc = "l682" /\ th'[j].pc # "l682" /\ ~Evicted(j)) =>
            /\ th'[j].pc = "l683"
            /\ jobs'[j].status = "Initializing..." /\ jobs'[j].progress = 0]_vars

C12_Witness ==
  /\ th[1].pc = "l683" /\ 1 \in DOMAIN jobs
  /\ jobs[1].status = "Initializing..." /\ jobs[1].progress = 0
  /\ st.pc = "read_status" /\ st.job_id = 1

\* C13 as stated: a sweep invocation that ends leaves no job in the registry
\* that was older than max_age_sec at the invocation's `now`; a step of the
\* sweep removes only such jobs and leaves the others and their fields
\* unchanged, also while /compress and the pipeline threads run.
C13_SweepRemovesExactlyExpired ==
  [][/\ (sweep.pc # "sleep" /\ sweep'.pc = "sleep") =>
          \A j \in DOMAIN jobs' : ~Expired(jobs'[j], sweep.now)
     /\ (sweep' # sweep) =>
          /\ \A j \in DOMAIN jobs \ DOMAIN jobs' : Expired(jobs[j], sweep.now)
          /\ \A j \in DOMAIN jobs' : j \in DOMAIN jobs /\ jobs'[j] = jobs[j]]_vars

\* C14 as stated: the input file of every job in the registry exists, and
\* a temporary file is removed only by the step that evicts its job.
C14_FileOwnedUntilEviction ==
  [][/\ \A j \in DOMAIN jobs' : jobs'[j].input_path \in DOMAIN files'
     /\ \A f \in DOMAIN files \ DOMAIN files' :
          f \in DOMAIN jobs /\ f \notin DOMAIN jobs' /\ jobs[f].input_path = f]_vars

\* the pages analyze_pdf_pages has classified so far, and where it put them
Classified ==
  IF an.pc \in {"loop", "returned"} /\ an.analysis # None
  THEN 1..(an.page_num - 1) ELSE {}

InSection(c, p) ==
  \E i \in 1..Len(an.analysis[1].sections[c]) : an.analysis[1].sections[c][i] = p

PatternFor(d) == patterns[CHOOSE i \in 1..Len(patterns) : patterns[i].k = d]

MatchesPattern(d, text) == re_search(PatternFor(d), text)

AnyPattern(text) == \E i \in 1..Len(patterns) : re_search(patterns[i], text)

HasKeyword(table, d, text) ==
  \E i \in 1..Len(table) :
    table[i].k = d /\ \E w \in 1..Len(table[i].words) : Contains(text, table[i].words[w])

\* i is the first of the places `hits` of an order
IsFirst(i, hits) == i \in hits /\ \A k \in 1..(i - 1) : k \notin hits

PatternOrder ==
  <<"cover_title", "architectural", "structural", "mechanical", "electrical",
    "plumbing", "landscape", "civil", "fire_safety">>

\* C15: a page whose title-block text matches sheet-number patterns is put
\* in the category of the first matching pattern in the order cover_title,
\* architectural, structural, mechanical, electrical, plumbing, landscape,
\* civil, fire_safety, whatever the full-page text holds.
C15_TitleBlockPatternWins ==
  \A p \in Classified :
    LET corner == corner_text(an.doc.pages[p])
        hits == {i \in 1..Len(PatternOrder) : MatchesPattern(PatternOrder[i], corner)}
    IN  \A i \in 1..Len(PatternOrder) :
          IsFirst(i, hits) => InSection(PatternOrder[i], p)

C15_Witness ==
  \E p \in Classified :
    /\ MatchesPattern("structural", corner_text(an.doc.pages[p]))
    /\ MatchesPattern("architectural", corner_text(an.doc.pages[p]))
    /\ Contains(full_text(an.doc.pages[p]), "HVAC")
    /\ InSection("architectural", p)

KeywordOrder ==
  <<"fire_safety", "mechanical", "electrical", "plumbing", "civil",
    "architectural", "structural", "landscape">>

\* C16: a page without a sheet-number pattern in the title-block text and in
\* the full-page text, whose full-page text holds discipline keywords, is
\* put in the first category with a keyword in it in the order fire_safety,
\* mechanical, electrical, plumbing, civil, architectural, structural,
\* landscape (the order of the keyword table, not the alphabet).
C16_KeywordOrderDecides ==
  \A p \in Classified :
    LET corner == corner_text(an.doc.pages[p])
        full == full_text(an.doc.pages[p])
        hits == {i \in 1..Len(KeywordOrder) :
                   HasKeyword(discipline_keywords, KeywordOrder[i], full)}
    IN  (~AnyPattern(corner) /\ ~AnyPattern(full)) =>
          \A i \in 1..Len(KeywordOrder) :
            IsFirst(i, hits) => InSection(KeywordOrder[i], p)

C16_Witness ==
  \E p \in Classified :
    /\ ~AnyPattern(full_text(an.doc.pages[p]))
    /\ Contains(full_text(an.doc.pages[p]), "FLOOR PLAN")
    /\ Contains(full_text(an.doc.pages[p]), "HVAC")
    /\ InSection("mechanical", p)

GeneralOrder == <<"cover_title", "schedules", "details">>

\* C17: a page without a pattern match and without a discipline keyword
\* (also a page whose text extraction raised: both texts are empty) is put
\* in "other", unless administrative keywords are in its full-page text:
\* then in the first category with one in the order cover_title, schedules,
\* details.
C17_AdministrativeOrOther ==
  \A p \in Classified :
    LET corner == corner_text(an.doc.pages[p])
        full == full_text(an.doc.pages[p])
        hits == {i \in 1..Len(GeneralOrder) : HasKeyword(general, GeneralOrder[i], full)}
    IN  (/\ ~AnyPattern(corner) /\ ~AnyPattern(full)
         /\ \A i \in 1..Len(KeywordOrder) :
              ~HasKeyword(discipline_keywords, KeywordOrder[i], full)) =>
          /\ an.doc.pages[p].raises => InSection("other", p)
          /\ hits = {} => InSection("other", p)
          /\ \A i \in 1..Len(GeneralOrder) :
               IsFirst(i, hits) => InSection(GeneralOrder[i], p)

C17_Witness ==
  \E p, q \in Classified :
    /\ an.doc.pages[p].raises /\ InSection("other", p)
    /\ Contains(full_text(an.doc.pages[q]), "GENERAL NOTES")
    /\ Contains(full_text(an.doc.pages[q]), "DETAIL")
    /\ InSection("cover_title", q)

\* the sum of the lengths of the lists of the categories in S
RECURSIVE SumLen(_, _)
SumLen(sections, S) ==
  IF S = {} THEN 0
  ELSE LET c == CHOOSE x \in S : TRUE
       IN  Len(sections[c]) + SumLen(sections, S \ {c})

\* C18: the analysis a call returns has the 12 category lists; each page
\* number 1..N of the N-page document is at exactly one place of exactly one
\* list, the lists hold nothing else and are ascending, and total_pages is
\* N, the sum of the lengths of the lists.
C18_SectionsPartitionPages ==
  (an.pc = "returned" /\ an.result # None) =>
    LET N == Len(an.doc.pages)
        sections == an.result[1].sections
        Places(p) == {<<c, i>> \in Categories \X (1..N) :
                        i <= Len(sections[c]) /\ sections[c][i] = p}
    IN  /\ DOMAIN sections = Categories /\ Cardinality(Categories) = 12
        /\ an.result[1].total_pages = N
        /\ SumLen(sections, Categories) = N
        /\ \A p \in 1..N : Cardinality(Places(p)) = 1
        /\ \A c \in Categories : \A i \in 1..Len(sections[c]) :
             /\ sections[c][i] \in 1..N
             /\ \A k \in 1..(i - 1) : sections[c][k] < sections[c][i]

C18_Witness ==
  /\ an.pc = "returned" /\ an.result # None
  /\ Len(an.doc.pages) = 2
  /\ an.result[1].sections["architectural"] = <<1, 2>>

\* the stage a status label belongs to, in pipeline order
Stage(status) ==
  CASE status = "queued" -> 0
    [] status = "Initializing..." -> 1
    [] status = "Cleaning annotations & attachments..." -> 3
    [] status = "Recompressing images..." -> 4
    [] status = "Saving (PyMuPDF)..." -> 5
    [] status = "Applying Ghostscript compression..." -> 6
    [] status = "Optimizing final PDF structure..." -> 7
    [] status = "done" -> 8
    [] status = "error" -> 9
    [] OTHER -> 2

\* the progress values of a stage
StageProgress(stage) ==
  CASE stage = 1 -> {5}
    [] stage = 2 -> {10}
    [] stage = 3 -> {15}
    [] stage = 4 -> 20..80
    [] stage = 5 -> {82}
    [] stage = 6 -> {90}
    [] stage = 7 -> {95}
    [] stage = 8 -> {100}
    [] OTHER -> {}

\* C19: the stage of a job changes only to the next stage in the order
\* initializing, page subsetting, cleanup, image recompression, structural
\* save, re-distillation, optimization, done (or to error), so no stage is
\* entered twice; cleanup follows page subsetting exactly when extreme
\* compression was requested; a progress value written is one of the
\* job's current stage (5, 10, 15, 20..80, 82, 90, 95, 100).
C19_StagesInOrder ==
  [][\A j \in DOMAIN jobs \cap DOMAIN jobs' :
       LET a == Stage(jobs[j].status)
           b == Stage(jobs'[j].status)
           extreme == th[j].extreme_compression
       IN  /\ b # a =>
                \/ b = 9 /\ a < 8
                \/ a = 2 /\ b = (IF extreme THEN 3 ELSE 4)
                \/ a \notin {2, 8, 9} /\ b = a + 1
           /\ b = 3 => extreme
           /\ jobs'[j].progress # jobs[j].progress =>
                jobs'[j].progress \in StageProgress(b)]_vars

C19_Witness ==
  \E j \in DOMAIN jobs :
    /\ jobs[j].status = "done" /\ jobs[j].progress = 100
    /\ th[j].extreme_compression /\ Len(th[j].images) = MaxImages

\* keep is xs converted to 0-based, without the entries outside
\* 0..page_count-1, in the order of xs
IsSelection(keep, xs, page_count) ==
  LET valid == {k \in 1..Len(xs) : 0 <= xs[k] - 1 /\ xs[k] - 1 < page_count}
  IN  \E f \in [1..Len(keep) -> 1..Len(xs)] :
        /\ \A i, k \in 1..Len(keep) : i < k => f[i] < f[k]
        /\ {f[i] : i \in 1..Len(keep)} = valid
        /\ \A i \in 1..Len(keep) : keep[i] = xs[f[i]] - 1

\* C20: once process_job has opened a document of N pages, the pages it
\* selects are, for a non-empty list, the list's entries minus one that lie
\* in 0..N-1, in the order of the list, and for an empty list 0..N-1 in
\* document order; the pages it copies are the selected ones in that order
\* (all of them in a job that ends "done"); when a non-empty list leaves no
\* page the job fails with "No valid pages selected." and no page is copied.
C20_SelectedPagesCopied ==
  \A j \in JobIds :
    LET xs == th[j].extract_pages
        N == th[j].page_count
        keep == th[j].keep
        work == th[j].work
    IN  N > 0 =>
          /\ xs # <<>> => IsSelection(keep, xs, N)
          /\ xs = <<>> => Len(keep) = N /\ \A i \in 1..N : keep[i] = i - 1
          /\ Len(work) <= Len(keep)
          /\ \A i \in 1..Len(work) : work[i].page = keep[i]
          /\ (j \in DOMAIN jobs /\ jobs[j].status = "done") => Len(work) = Len(keep)
          /\ (xs # <<>> /\ keep = <<>>) =>
               /\ work = <<>>
               /\ th[j].pc \in {"except", "finished"}
               /\ th[j].exc = Some("No valid pages selected.")
               /\ (th[j].pc = "finished" /\ j \in DOMAIN jobs) =>
                    /\ jobs[j].status = "error"
                    /\ jobs[j].error = Some("No valid pages selected.")

C20_Witness ==
  \E j \in DOMAIN jobs :
    /\ jobs[j].status = "done" /\ th[j].extract_pages = <<2, 1>>
    /\ Len(th[j].work) = 2 /\ th[j].work[1].page = 1 /\ th[j].work[2].page = 0

\* C21 as stated: a job fails in the page copy only on a page for which
\* both attempts (with links, then without) were made and failed.
C21_FailsOnlyAfterRetry ==
  \A j \in JobIds :
    Len(th[j].attempts) > Len(th[j].work) =>
      th[j].attempts[Len(th[j].attempts)] = 2

\* C22: an image whose decoding, recompression or replacement fails keeps
\* its prior stream, a recompressed one has the new stream; no exception
\* leaves the image loop, so every image is handled and the job goes on to
\* the structural save.
C22_ImageFailureAbsorbed ==
  \A j \in JobIds :
    LET how == th[j].image_how
    IN  /\ Len(th[j].images) = Len(how) /\ Len(how) <= th[j].total
        /\ \A i \in 1..Len(how) :
             th[j].images[i] = (IF how[i] = "ok" THEN "new" ELSE "prior")
        /\ th[j].pc = "l755" <=> (th[j].total > 0 /\ Len(how) < th[j].total)
        /\ (th[j].exc # None /\ th[j].total > 0) =>
             Len(how) = th[j].total /\ th[j].exc = Some("cannot save")
        /\ th[j].pymupdf_bytes # None =>
             Len(how) = th[j].total /\ th[j].pymupdf_bytes[1].images = th[j].images

C22_Witness ==
  \E j \in DOMAIN jobs :
    /\ jobs[j].status = "done" /\ th[j].image_how = <<"fail", "ok">>
    /\ jobs[j].output_buffer[1].images = <<"prior", "new">>

\* C23 as stated: during the image loop, after the k-th of n images has
\* been handled in any way, progress is 20 + floor(60 * k / n); it is 80
\* after the last image and 20 when there is no image.
C23_ProgressRamp ==
  \A j \in DOMAIN jobs :
    th[j].pc \in {"l755", "l778"} =>
      LET k == Len(th[j].image_how)
          n == th[j].total
      IN  jobs[j].progress = (IF n = 0 THEN 20 ELSE 20 + ((60 * k) \div n))

\* C25: ghostscript_compress returns its input unchanged when Ghostscript
\* is not found, exits non-zero, fails with an I/O error or exits 0 with
\* empty output; it returns the distilled bytes only on exit 0 with output,
\* the extreme flag choosing the profile and nothing else; the call never
\* raises, so the pipeline goes on to the final optimisation.
C25_GhostscriptFallsBack ==
  \A j \in JobIds :
    th[j].gs_how # None =>
      LET input == th[j].pymupdf_bytes[1]
          out == th[j].gs_bytes[1]
          profile == IF th[j].extreme_compression THEN "gs_screen" ELSE "gs_ebook"
      IN  /\ th[j].gs_how[1] \in {"not_found", "nonzero_exit", "io_error", "empty_output"}
               => out = input
          /\ th[j].gs_how[1] = "ok" =>
               /\ out.passes = Append(input.passes, profile)
               /\ out.pages = input.pages /\ out.images = input.images
          /\ th[j].exc = None
          /\ th[j].pc \in {"l792", "l793", "finished"}

C25_Witness ==
  \E j \in DOMAIN jobs :
    /\ th[j].gs_how = Some("empty_output") /\ th[j].extreme_compression
    /\ th[j].pc = "l792" /\ th[j].gs_bytes = th[j].pymupdf_bytes

\* C27: a token enters the registry only when /compress registers it, once;
\* after the sweep has evicted it no step puts it back, and a step of its
\* still running thread finds no record, writes nothing to the registry and
\* ends in the exception handler (collecting the images, line 752, is the
\* one step that touches no record).
C27_NoResurrection ==
  [][\A j \in JobIds :
       /\ (j \notin DOMAIN jobs /\ j \in DOMAIN jobs') =>
            th[j].pc = "saved" /\ th'[j].pc = "registered" /\ ~Evicted(j)
       /\ Evicted(j) => j \notin DOMAIN jobs'
       /\ (Evicted(j) /\ Started(j) /\ th'[j] # th[j] /\ th[j].pc # "l752") =>
            jobs' = jobs /\ th'[j].pc \in {"except", "dead"}]_vars

C27_Witness ==
  /\ Evicted(1) /\ 1 \notin DOMAIN jobs
  /\ th[1].pc = "dead" /\ th[1].exc = Some(KeyErrorMsg(1))

\* C28 as stated: once a job is "done" or "error", no step changes its
\* status, progress, error or output buffer (the buffer's bytes and whether
\* it can still be read) while the job is in the registry.
C28_TerminalAbsorbing ==
  [][\A j \in DOMAIN jobs :
       (jobs[j].status \in {"done", "error"} /\ j \in DOMAIN jobs') =>
         /\ jobs'[j].status = jobs[j].status
         /\ jobs'[j].progress = jobs[j].progress
         /\ jobs'[j].error = jobs[j].error
         /\ jobs'[j].output_buffer = jobs[j].output_buffer
         /\ j \in closed' <=> j \in closed]_vars

\* C30 as stated: when /compress has answered a request with an error, no
\* job of that request is in the registry and its temporary file is gone;
\* and while /compress handles a request, a job it has registered refers
\* to a file that exists.
C30_FailedSubmitLeavesNoTrace ==
  \A j \in JobIds :
    /\ th[j].pc = "rejected" => j \notin DOMAIN jobs /\ j \notin DOMAIN files
    /\ (j \in DOMAIN jobs /\ ~Started(j)) => jobs[j].input_path \in DOMAIN files

\* the sides of the source image as the decoder presents them to the
\* downscaling step (a successful transposition of a quarter turn swaps them)
Presented ==
  IF rs.exif = "rotated" THEN [width |-> rs.src.height, height |-> rs.src.width]
  ELSE rs.src

\* C26: with extreme or mode line_art the result is a 1-bit Group-4 TIFF and
\* the quality plays no part; otherwise it is a JPEG, grayscale for general
\* and full colour for mixed, with the quality clamped to 20..95. The image
\* is resized only when its larger side exceeds max_dim: then the larger
\* side becomes max_dim and no side grows; otherwise the size is kept.
C26_ResampleEncoding ==
  rs.pc = "returned" =>
    LET r == rs.result[1]
        big == IF Presented.width > Presented.height
               THEN Presented.width ELSE Presented.height
    IN  /\ (rs.extreme \/ rs.mode = "line_art") =>
             r.format = "TIFF" /\ r.compression = "group4" /\ r.color = "1"
             /\ r.quality = None
        /\ ~(rs.extreme \/ rs.mode = "line_art") =>
             /\ r.format = "JPEG"
             /\ rs.mode = "general" => r.color = "L"
             /\ rs.mode = "mixed" => r.color = "RGB"
             /\ \E q \in 20..95 :
                  /\ r.quality = Some(q)
                  /\ rs.quality \in 20..95 => q = rs.quality
                  /\ rs.quality < 20 => q = 20
                  /\ rs.quality > 95 => q = 95
        /\ big <= rs.max_dim =>
             r.width = Presented.width /\ r.height = Presented.height
        /\ big > rs.max_dim =>
             /\ r.width <= Presented.width /\ r.height <= Presented.height
             /\ r.width >= 1 /\ r.height >= 1
             /\ (IF r.width > r.height THEN r.width ELSE r.height) = rs.max_dim

C26_Witness ==
  /\ rs.pc = "returned" /\ ~rs.extreme /\ rs.mode = "mixed" /\ rs.quality = 200
  /\ rs.src = [width |-> 4, height |-> 3] /\ rs.max_dim = 2 /\ rs.exif = "rotated"
  /\ rs.result[1].width = 1 /\ rs.result[1].height = 2
  /\ rs.result[1].quality = Some(95)

\* the cleanup met no error: no call raised
NoCleanupError(how) ==
  how.stop_page = 0 /\ how.undeletable = 0 /\ how.emb_stop = 0

\* C24: in extreme mode the cleanup never fails the job, whatever raises in
\* it: the thread goes on to the image recompression. When nothing raised,
\* no page has an annotation left and the embedded files left are exactly
\* those whose lower-cased filename does not end in ".js", in their order.
\* Outside extreme mode the annotations and embedded files are as copied.
C24_CleanupBestEffort ==
  \A j \in JobIds :
    th[j].content # None =>
      LET copied == th[j].content[1]
          IsJs(i) ==
            /\ copied.embfiles[i] # None
            /\ copied.embfiles[i][1].filename \in
                 {Some("a.js"), Some("B.JS")}
          kept == {i \in 1..Len(copied.embfiles) : ~IsJs(i)}
      IN  /\ th[j].clean_how # None =>
               /\ th[j].extreme_compression
               /\ th[j].exc # None => th[j].exc = Some("cannot save")
               /\ th[j].pc \notin {"l700", "l720", "l721"}
               /\ NoCleanupError(th[j].clean_how[1]) =>
                    /\ \A p \in 1..Len(th[j].annots) : th[j].annots[p] = 0
                    /\ Len(th[j].embfiles) = Cardinality(kept)
                    /\ \A i \in kept :
                         th[j].embfiles[Cardinality({k \in kept : k <= i})]
                           = copied.embfiles[i]
          /\ (~th[j].extreme_compression \/ th[j].clean_how = None) =>
               th[j].annots = copied.annots /\ th[j].embfiles = copied.embfiles
          /\ th[j].pymupdf_bytes # None =>
               /\ th[j].pymupdf_bytes[1].annots = th[j].annots
               /\ th[j].pymupdf_bytes[1].embfiles = th[j].embfiles
               /\ th[j].extreme_compression <=> th[j].clean_how # None

C24_Witness ==
  \E j \in DOMAIN jobs :
    /\ jobs[j].status = "done" /\ th[j].extreme_compression
    /\ th[j].clean_how = Some(CleanOk)
    /\ th[j].content[1].annots = <<2, 1>>
    /\ th[j].content[1].embfiles
         = <<Some([filename |-> Some("B.JS")]), Some([filename |-> Some("js.pdf")])>>
    /\ jobs[j].output_buffer[1].annots = <<0, 0>>
    /\ jobs[j].output_buffer[1].embfiles = <<Some([filename |-> Some("js.pdf")])>>

\* C29 as stated: a job's record (its fields, and the state of its output
\* buffer) changes only in a step of its own pipeline thread; a token
\* enters the registry only in a step of its own request and leaves it only
\* in a step of the sweep; a step of /status or /download changes nothing
\* of the registry.
C29_OnlyOwnThreadWrites ==
  [][\A j \in JobIds :
       /\ (j \in DOMAIN jobs /\ j \in DOMAIN jobs' /\ jobs'[j] # jobs[j]) =>
            th'[j] # th[j]
       /\ (j \in DOMAIN jobs /\ j \in DOMAIN jobs' /\ (j \in closed' <=> j \notin closed)) =>
            th'[j] # th[j]
       /\ (j \notin DOMAIN jobs /\ j \in DOMAIN jobs') => th'[j] # th[j]
       /\ (j \in DOMAIN jobs /\ j \notin DOMAIN jobs') => sweep' # sweep
       /\ \A k \in JobIds \ {j} :
            (th'[j] # th[j] /\ k \in DOMAIN jobs) =>
              k \in DOMAIN jobs' /\ jobs'[k] = jobs[k]]_vars

====
